---- MODULE Spec2Model ----
(***************************************************************************)
(* llm-council: the three-stage council pipeline (LLMCouncil.run) and its  *)
(* two pure algorithms, parseRanking and calculateAggregateRankings.       *)
(*                                                                         *)
(* A JavaScript string is a sequence of one-character strings.  An         *)
(* optional (T | null) is <<>> for null and <<v>> for the value v.         *)
(***************************************************************************)
EXTENDS Integers, Sequences, FiniteSets, TLC

\* ------------------------------------------------------------------------
\* Strings
\* ------------------------------------------------------------------------

\* the literal 'FINAL RANKING:' of parseRanking
FinalRankingLit == <<"F","I","N","A","L"," ","R","A","N","K","I","N","G",":">>

\* the literal 'Response ' of the label template and of the label patterns
ResponseLit == <<"R","e","s","p","o","n","s","e"," ">>

Upper == <<"A","B","C","D","E","F","G","H","I","J","K","L","M",
           "N","O","P","Q","R","S","T","U","V","W","X","Y","Z">>

\* the characters with codes 91.. that follow 'Z'
AfterUpper == <<"[","\\","]","^","_">>

\* String.fromCharCode(65 + i), i >= 0
fromCharCode65 ==
  [i \in 0..(Len(Upper) + Len(AfterUpper) - 1) |->
     IF i < Len(Upper) THEN Upper[i + 1] ELSE AfterUpper[i + 1 - Len(Upper)]]

\* [A-Z] under the i flag
IsUpperOrLower(c) ==
  \/ \E k \in 1..Len(Upper) : Upper[k] = c
  \/ c \in {"a","b","c","d","e","f","g","h","i","j","k","l","m",
            "n","o","p","q","r","s","t","u","v","w","x","y","z"}

\* regular-expression character classes
IsUpper(c) == \E k \in 1..Len(Upper) : Upper[k] = c
IsLower(c) == c \in {"a","b","c","d","e","f","g","h","i","j","k","l","m",
                     "n","o","p","q","r","s","t","u","v","w","x","y","z"}
IsDigit(c) == c \in {"0","1","2","3","4","5","6","7","8","9"}
IsSpace(c) == c \in {" ","\n","\t","\r","\f"}
IsWord(c)  == IsUpper(c) \/ IsLower(c) \/ IsDigit(c) \/ c = "_"

\* s.slice(from - 1, to - 1) with 1-based positions: s[from] .. s[to - 1]
Slice(s, from, to) == [k \in 1..(to - from) |-> s[from + k - 1]]

\* the literal lit occurs in s at position i
HasAt(s, i, lit) ==
  /\ i + Len(lit) - 1 <= Len(s)
  /\ \A k \in 1..Len(lit) : s[i + k - 1] = lit[k]

\* s.indexOf(lit) as a 1-based position, 0 when absent
indexOf(s, lit) ==
  IF \E i \in 1..Len(s) : HasAt(s, i, lit)
  THEN CHOOSE i \in 1..Len(s) :
         HasAt(s, i, lit) /\ \A j \in 1..(i - 1) : ~HasAt(s, j, lit)
  ELSE 0

\* first position >= i whose character is not a digit (\d+ / \d*, greedy)
RECURSIVE DigitsEnd(_, _)
DigitsEnd(s, i) ==
  IF i <= Len(s) /\ IsDigit(s[i]) THEN DigitsEnd(s, i + 1) ELSE i

\* first position >= i whose character is not white space (\s*, greedy)
RECURSIVE SpaceEnd(_, _)
SpaceEnd(s, i) ==
  IF i <= Len(s) /\ IsSpace(s[i]) THEN SpaceEnd(s, i + 1) ELSE i

\* s.trim()
RECURSIVE trim(_)
trim(s) ==
  IF s = <<>> THEN s
  ELSE IF IsSpace(s[1]) THEN trim(Tail(s))
  ELSE IF IsSpace(s[Len(s)]) THEN trim(Slice(s, 1, Len(s)))
  ELSE s

\* m.replace(/^\d+\.\s*/, '')
StripOrdinal(m) ==
  LET j == DigitsEnd(m, 1)
  IN  IF j > 1 /\ j <= Len(m) /\ m[j] = "."
      THEN Slice(m, SpaceEnd(m, j + 1), Len(m) + 1)
      ELSE m

\* m.replace(/[,.]$/, '')
StripPunct(m) ==
  IF m # <<>> /\ m[Len(m)] \in {",", "."} THEN Slice(m, 1, Len(m)) ELSE m

\* the matches returned as they are, without new Set
WithDuplicates(seq) == seq

\* [...new Set(seq)]: first occurrences, in order
RECURSIVE Dedup(_)
Dedup(seq) ==
  IF seq = <<>> THEN <<>>
  ELSE LET init == Slice(seq, 1, Len(seq))
           last == seq[Len(seq)]
       IN  IF \E k \in 1..Len(init) : init[k] = last
           THEN Dedup(init)
           ELSE Append(Dedup(init), last)

\* ------------------------------------------------------------------------
\* parseRanking
\* ------------------------------------------------------------------------

\* /\d+\.\s*Response [A-Z]/ anchored at i: position after the match, else 0
NumberedEnd(s, i) ==
  LET j == DigitsEnd(s, i)
      k == SpaceEnd(s, j + 1)
      e == k + Len(ResponseLit)
  IN  IF /\ j > i
         /\ j <= Len(s) /\ s[j] = "."
         /\ HasAt(s, k, ResponseLit)
         /\ e <= Len(s) /\ IsUpper(s[e])
      THEN e + 1
      ELSE 0

\* /\d+\.\s*[A-Z](?:\s|$|,|\.)/ anchored at i: position after the match, else 0
BareEnd(s, i) ==
  LET j == DigitsEnd(s, i)
      k == SpaceEnd(s, j + 1)
  IN  IF /\ j > i
         /\ j <= Len(s) /\ s[j] = "."
         /\ k <= Len(s) /\ IsUpper(s[k])
      THEN IF k + 1 <= Len(s) /\ (IsSpace(s[k + 1]) \/ s[k + 1] \in {",", "."})
           THEN k + 2
           ELSE IF k + 1 > Len(s) THEN k + 1 ELSE 0
      ELSE 0

\* /Response [A-Z]/ anchored at i
MentionEnd(s, i) ==
  LET e == i + Len(ResponseLit)
  IN  IF HasAt(s, i, ResponseLit) /\ e <= Len(s) /\ IsUpper(s[e])
      THEN e + 1
      ELSE 0

\* (?:\s*>\s*([A-Z]))* from position i, greedy: position after the last round
RECURSIVE GtMore(_, _)
GtMore(s, i) ==
  LET a == SpaceEnd(s, i)
      b == SpaceEnd(s, a + 1)
  IN  IF a <= Len(s) /\ s[a] = ">" /\ b <= Len(s) /\ IsUpper(s[b])
      THEN GtMore(s, b + 1)
      ELSE i

\* /\b([A-Z])\s*>\s*([A-Z])(?:\s*>\s*([A-Z]))*/ anchored at i
GtEnd(s, i) ==
  LET a == SpaceEnd(s, i + 1)
      b == SpaceEnd(s, a + 1)
  IN  IF /\ i <= Len(s) /\ IsUpper(s[i])
         /\ (i = 1 \/ ~IsWord(s[i - 1]))
         /\ a <= Len(s) /\ s[a] = ">"
         /\ b <= Len(s) /\ IsUpper(s[b])
      THEN GtMore(s, b + 1)
      ELSE 0

\* s.match(/.../g) for the four patterns: the matched substrings, leftmost
\* first and not overlapping (<<>> where JavaScript gives null)
RECURSIVE matchNumbered(_, _)
matchNumbered(s, i) ==
  IF i > Len(s) THEN <<>>
  ELSE LET e == NumberedEnd(s, i)
       IN  IF e = 0 THEN matchNumbered(s, i + 1)
           ELSE <<Slice(s, i, e)>> \o matchNumbered(s, e)

RECURSIVE matchBare(_, _)
matchBare(s, i) ==
  IF i > Len(s) THEN <<>>
  ELSE LET e == BareEnd(s, i)
       IN  IF e = 0 THEN matchBare(s, i + 1)
           ELSE <<Slice(s, i, e)>> \o matchBare(s, e)

\* a mention pattern that matches nothing
matchNoMention(s, i) == <<>>

RECURSIVE matchMention(_, _)
matchMention(s, i) ==
  IF i > Len(s) THEN <<>>
  ELSE LET e == MentionEnd(s, i)
       IN  IF e = 0 THEN matchMention(s, i + 1)
           ELSE <<Slice(s, i, e)>> \o matchMention(s, e)

RECURSIVE matchGt(_, _)
matchGt(s, i) ==
  IF i > Len(s) THEN <<>>
  ELSE LET e == GtEnd(s, i)
       IN  IF e = 0 THEN matchGt(s, i + 1)
           ELSE <<Slice(s, i, e)>> \o matchGt(s, e)

\* str.split('>')
RECURSIVE split(_, _)
split(s, cur) ==
  IF s = <<>> THEN <<cur>>
  ELSE IF s[1] = ">" THEN <<cur>> \o split(Tail(s), <<>>)
  ELSE split(Tail(s), Append(cur, s[1]))

\* the bare-letter match with its ordinal removed and nothing else
BareLabelUntrimmed(m) == ResponseLit \o StripOrdinal(m)

BareLabel(m) == ResponseLit \o StripPunct(trim(StripOrdinal(m)))
GtLabel(l)   == ResponseLit \o l
IsLetter(l)  == Len(l) = 1 /\ IsUpper(l[1])

\* the patterns of the marker block applied to the whole text
wholeText(text, finalRankingIdx) == text

\* text.slice(finalRankingIdx)
sectionFrom(text, finalRankingIdx) ==
  Slice(text, finalRankingIdx, Len(text) + 1)

\* strategy 2 run only when no marker was found
numberedIfNoMarker(text, finalRankingIdx) ==
  IF finalRankingIdx = 0 THEN matchNumbered(text, 1) ELSE <<>>

\* strategy 2: text.match(/\d+\.\s*Response [A-Z]/g), after the marker block
\* whether or not finalRankingIdx is -1
numberedAnywhere(text, finalRankingIdx) == matchNumbered(text, 1)

parseRanking(text) ==
  LET finalRankingIdx   == indexOf(text, FinalRankingLit)
      section           == sectionFrom(text, finalRankingIdx)
      matches           == matchNumbered(section, 1)
      bareMatches       == matchBare(section, 1)
      numberedResponses == numberedAnywhere(text, finalRankingIdx)
      mentions          == matchMention(text, 1)
      gtPattern         == matchGt(text, 1)
      parts             == split(gtPattern[1], <<>>)
      letters           == [k \in 1..Len(parts) |-> trim(parts[k])]
  IN  IF finalRankingIdx # 0 /\ Len(matches) > 0
        THEN [k \in 1..Len(matches) |-> StripOrdinal(matches[k])]
      ELSE IF finalRankingIdx # 0 /\ Len(bareMatches) > 0
        THEN [k \in 1..Len(bareMatches) |-> BareLabel(bareMatches[k])]
      ELSE IF Len(numberedResponses) > 0
        THEN [k \in 1..Len(numberedResponses) |->
                StripOrdinal(numberedResponses[k])]
      ELSE IF Len(mentions) > 0
        THEN Dedup(mentions)
      ELSE IF gtPattern # <<>> /\ \A k \in 1..Len(letters) : IsLetter(letters[k])
        THEN [k \in 1..Len(letters) |-> GtLabel(letters[k])]
      ELSE <<>>

\* ------------------------------------------------------------------------
\* calculateAggregateRankings
\* ------------------------------------------------------------------------

\* A model identity is an opaque string.  Three kinds of identity behave
\* differently as keys and values of the plain objects labelToModel and
\* modelRanks (Record<string, ...> created by {}):
\*  - '' is falsy,
\*  - the names of Object.prototype's properties read as truthy on {},
\*  - canonical array indices are enumerated first, in ascending order.
ObjectPrototypeKeys ==
  {"constructor", "toString", "valueOf", "hasOwnProperty", "isPrototypeOf",
   "propertyIsEnumerable", "toLocaleString", "__proto__"}

DecimalStrings == <<"0","1","2","3","4","5","6","7","8","9","10","11","12">>

\* the array index a property key denotes, -1 for any other key
ArrayIndexOf(key) ==
  IF \E k \in 1..Len(DecimalStrings) : DecimalStrings[k] = key
  THEN (CHOOSE k \in 1..Len(DecimalStrings) : DecimalStrings[k] = key) - 1
  ELSE -1

\* what `undefined` and '' have in common: `if (model)` skips them
Falsy == ""

\* labelToModel[label]
Lookup(labelToModel, label) ==
  IF label \in DOMAIN labelToModel THEN labelToModel[label] ELSE Falsy

\* index of model among the own keys of modelRanks (insertion order), else 0
OwnIndex(modelRanks, model) ==
  IF \E k \in 1..Len(modelRanks) : modelRanks[k].model = model
  THEN CHOOSE k \in 1..Len(modelRanks) : modelRanks[k].model = model
  ELSE 0

\* the (label, i + 1) pairs the two nested loops visit, in order
RECURSIVE RankPairs(_)
RankPairs(rankings) ==
  IF rankings = <<>> THEN <<>>
  ELSE LET parsed == rankings[1].parsed_ranking
       IN  [i \in 1..Len(parsed) |-> [label |-> parsed[i], rank |-> i]]
             \o RankPairs(Tail(rankings))

\* one round of the inner loop body on the accumulator
\* [modelRanks: own entries in insertion order, thrown: a TypeError escaped]
RankStep(acc, labelToModel, pair) ==
  LET model == Lookup(labelToModel, pair.label)
      k     == OwnIndex(acc.modelRanks, model)
  IN  IF acc.thrown \/ model = Falsy THEN acc
      ELSE IF k # 0
        THEN [acc EXCEPT !.modelRanks[k].ranks = Append(@, pair.rank)]
      ELSE IF model \in ObjectPrototypeKeys
        \* modelRanks[model] is the inherited property: no array is created
        \* and .push is not a function
        THEN [acc EXCEPT !.thrown = TRUE]
      ELSE [acc EXCEPT !.modelRanks =
                         Append(@, [model |-> model, ranks |-> <<pair.rank>>])]

RECURSIVE RankLoop(_, _, _)
RankLoop(pairs, labelToModel, n) ==
  IF n = 0 THEN [modelRanks |-> <<>>, thrown |-> FALSE]
  ELSE RankStep(RankLoop(pairs, labelToModel, n - 1), labelToModel, pairs[n])

\* stable insertion of index n into the indices idx, sorted by keys
RECURSIVE InsertSorted(_, _, _)
InsertSorted(idx, n, keys) ==
  IF idx = <<>> THEN <<n>>
  ELSE LET last == idx[Len(idx)]
       IN  IF keys[last] <= keys[n] THEN Append(idx, n)
           ELSE Append(InsertSorted(Slice(idx, 1, Len(idx)), n, keys), last)

\* the indices 1..n of keys in ascending key order, equal keys in index order
RECURSIVE SortedIndices(_, _)
SortedIndices(keys, n) ==
  IF n = 0 THEN <<>> ELSE InsertSorted(SortedIndices(keys, n - 1), n, keys)

\* a sort with the comparator's operands swapped: (a, b) => keys[b] - keys[a]
StableSortDescending(seq, keys) ==
  LET idx == SortedIndices(keys, Len(keys))
  IN  [k \in 1..Len(seq) |-> seq[idx[Len(seq) + 1 - k]]]

\* seq.sort((a, b) => keys[a] - keys[b]), keys[k] being the sort key of
\* seq[k]: stable
StableSort(seq, keys) ==
  LET idx == SortedIndices(keys, Len(keys))
  IN  [k \in 1..Len(seq) |-> seq[idx[k]]]

\* the indices 1..n whose flag is set, ascending
RECURSIVE KeptIndices(_, _)
KeptIndices(flags, n) ==
  IF n = 0 THEN <<>>
  ELSE IF flags[n] THEN Append(KeptIndices(flags, n - 1), n)
  ELSE KeptIndices(flags, n - 1)

\* the elements of seq whose flag is set, in order
Keep(seq, flags) ==
  LET idx == KeptIndices(flags, Len(flags))
  IN  [k \in 1..Len(idx) |-> seq[idx[k]]]

\* Object.entries(modelRanks): array-index keys ascending, then the others
\* in insertion order
ObjectEntries(modelRanks) ==
  LET index    == [k \in 1..Len(modelRanks) |-> ArrayIndexOf(modelRanks[k].model)]
      isIndex  == [k \in 1..Len(modelRanks) |-> index[k] >= 0]
      notIndex == [k \in 1..Len(modelRanks) |-> index[k] < 0]
  IN  StableSort(Keep(modelRanks, isIndex), Keep(index, isIndex))
        \o Keep(modelRanks, notIndex)

\* ranks.reduce((a, b) => a + b, 0)
RECURSIVE Sum(_)
Sum(ranks) == IF ranks = <<>> THEN 0 ELSE ranks[1] + Sum(Tail(ranks))

\* Math.round((sum / count) * 100), the average in hundredths: Math.round
\* rounds half up, floor(x + 1/2)
RoundedAverage(ranks) ==
  (200 * Sum(ranks) + Len(ranks)) \div (2 * Len(ranks))

\* one AggregateRanking; average_rank is held in hundredths
Aggregate(e) ==
  [model          |-> e.model,
   average_rank   |-> RoundedAverage(e.ranks),
   rankings_count |-> Len(e.ranks)]

\* calculateAggregateRankings throws (TypeError from modelRanks[model].push)
aggregateThrows(rankings, labelToModel) ==
  LET pairs == RankPairs(rankings)
  IN  RankLoop(pairs, labelToModel, Len(pairs)).thrown

\* the value calculateAggregateRankings returns when it does not throw
calculateAggregateRankings(rankings, labelToModel) ==
  LET pairs      == RankPairs(rankings)
      modelRanks == RankLoop(pairs, labelToModel, Len(pairs)).modelRanks
      entries    == ObjectEntries(modelRanks)
      aggregates == [k \in 1..Len(entries) |-> Aggregate(entries[k])]
  IN  StableSort(aggregates,
                 [k \in 1..Len(aggregates) |-> aggregates[k].average_rank])

\* ------------------------------------------------------------------------
\* LLMCouncil: configuration, inputs and state
\* ------------------------------------------------------------------------

\* longest configured model list
MaxModels == 2

\* model identities a council is configured with
ModelIds == {"model-a", "model-b", "constructor"}

\* the runs: a chairman that is a council member or an outsider, and the
\* query run() is called with
Runs == {[chairmanModel |-> "model-a", query |-> "What is 2+2?"],
         [chairmanModel |-> "chairman-x", query |-> "hello"]}

\* texts a provider returns for a Stage 1 request
Responses == {"answer one", "answer two"}

\* text the chairman returns
Synthesis == "As chairman, here is my synthesis of all responses."

\* message of the error a Stage 1 or Stage 2 request rejects with
RequestError == "connection refused"

\* messages of the errors the chairman's request rejects with
ErrorMessages == {"connection refused",
                  "OpenRouter API error (429): rate limited"}

NL == <<"\n">>
One == <<"1", ".", " ">>
Two == <<"2", ".", " ">>

\* texts a provider returns for a ranking request
Evaluations ==
  { FinalRankingLit \o NL \o One \o ResponseLit \o <<"B">> \o NL
                          \o Two \o ResponseLit \o <<"A">>,
    <<"n", "o", "n", "e">> }

Null == <<>>
Some(v) == <<v>>
Get(o) == o[1]

Stage1FailedPrefix == "Stage 1 failed: "
Stage2FailedPrefix == "Stage 2 failed: "
\* the Stage 2 catch block pasted for Stage 3 with its text unchanged
Stage3PrefixPastedFromStage2 == "Stage 2 failed: "

Stage3FailedPrefix == "Stage 3 failed: "
AllModelsFailedMessage == "All models failed to respond in Stage 1"
PushTypeErrorMessage == "modelRanks[model].push is not a function"

\* an error text that drops the underlying message
ErrorTextWithoutDetail(prefix, message) ==
  [prefix |-> prefix, message |-> "unknown error"]

\* the template string `${prefix}${message}`
ErrorText(prefix, message) == [prefix |-> prefix, message |-> message]

\* a promise handed to Promise.allSettled, and its slot in the results array
Pending == [status |-> "pending", value |-> Null, reason |-> Null]
Fulfilled(v) == [status |-> "fulfilled", value |-> Some(v), reason |-> Null]
Rejected(m) == [status |-> "rejected", value |-> Null, reason |-> Some(m)]

\* the provider and credential a council is configured with
Configs == {[provider |-> "ollama",     apiKey |-> Null],
            [provider |-> "openrouter", apiKey |-> Some("<openrouter-api-key>")],
            [provider |-> "openrouter", apiKey |-> Null],
            [provider |-> "openrouter", apiKey |-> Some("")]}

ApiKeyRequiredMessage == "apiKey is required for the openrouter provider"

VARIABLES
  config,        \* the provider and apiKey of the CouncilConfig
  provider,      \* this.provider: the kind of provider object, once created
  thrown,        \* the error the constructor, or a direct call of
                 \* calculateAggregateRankings, threw
  parts,         \* the evaluation text handed to parseRanking, in phrases
  parsed,        \* what parseRanking returned
  aggArgs,       \* the arguments of a direct calculateAggregateRankings call
  aggregates,    \* what that call returned
  models,        \* this.models
  chairmanModel, \* this.chairmanModel
  query,         \* the argument of run()
  pc,            \* where the council is: new, threw, idle (constructed),
                 \* stage1, stage2, stage3, done
  result,        \* the CouncilResult of run()
  results1,      \* the promises of stage1's Promise.allSettled
  results2,      \* the promises of stage2's Promise.allSettled
  results3,      \* the promise of stage3's provider.chat
  labelToModel,  \* stage2's labelToModel
  calls          \* the provider.chat calls made so far, in order

vars == <<config, provider, thrown, parts, parsed, aggArgs, aggregates,
          models, chairmanModel, query, pc, result, results1, results2,
          results3, labelToModel, calls>>

\* the variables of the constructor and of a parseRanking call
others == <<config, parts, parsed, aggArgs, aggregates>>

\* sequences over S of length 0..n
SeqsUpTo(S, n) == UNION {[1..k -> S] : k \in 0..n}

Init ==
  /\ config \in Configs
  /\ provider = Null
  /\ thrown = Null
  /\ parts = <<>>
  /\ parsed = Null
  /\ aggArgs = Null
  /\ aggregates = Null
  /\ models \in SeqsUpTo(ModelIds, MaxModels)
  /\ \E run \in Runs : chairmanModel = run.chairmanModel /\ query = run.query
  /\ pc = "new"
  /\ result = [query |-> query, stage1 |-> Null, stage2 |-> Null,
               stage3 |-> Null, error |-> Null]
  /\ results1 = <<>>
  /\ results2 = <<>>
  /\ results3 = <<>>
  /\ labelToModel = <<>>
  /\ calls = <<>>

\* ------------------------------------------------------------------------
\* LLMCouncil: the stages
\* ------------------------------------------------------------------------

IsFulfilled(r) == r.status = "fulfilled"
IsSettled(r) == r.status # "pending"
ValueOf(r) == Get(r.value)

\* a join that resumes at the first settled promise (Promise.race)
firstSettled(promises) == \E i \in 1..Len(promises) : IsSettled(promises[i])

\* Promise.allSettled(promises) has resolved
allSettled(promises) == \A i \in 1..Len(promises) : IsSettled(promises[i])

\* the loop over results that pushes the fulfilled values, in index order
Collect(results) ==
  LET kept == Keep(results, [i \in 1..Len(results) |-> IsFulfilled(results[i])])
  IN  [k \in 1..Len(kept) |-> ValueOf(kept[k])]

\* seq.reverse()
Reverse(seq) == [k \in 1..Len(seq) |-> seq[Len(seq) + 1 - k]]

\* entries collected with unshift instead of push
stage1EntriesReversed(results) == Reverse(Collect(results))

\* stage1: the entries collected from the settled Stage 1 promises
stage1Entries(results) == Collect(results)

\* a stage that fails as soon as one model failed (Promise.all)
stage1FailsOnAnyFailure(entries) == Len(entries) < Len(models)

\* stage1: `if (entries.length === 0) throw ...`
stage1Fails(entries) == Len(entries) = 0

HasParsedRanking(r) == IsFulfilled(r) /\ Len(ValueOf(r).parsed_ranking) > 0

\* rankings that drop the evaluators whose text could not be parsed
stage2RankingsParsedOnly(results) ==
  LET kept == Keep(results,
                   [i \in 1..Len(results) |-> HasParsedRanking(results[i])])
  IN  [k \in 1..Len(kept) |-> ValueOf(kept[k])]

\* stage2: the rankings collected from the settled ranking promises
stage2Rankings(results) == Collect(results)

\* `Response ${String.fromCharCode(65 + i)}`
Label(i) == ResponseLit \o <<fromCharCode65[i]>>

\* labels taken from the position in this.models instead of in stage1
AnonymizeByConfiguredPosition(stage1) ==
  LET survivors == {i \in 1..Len(results1) : IsFulfilled(results1[i])}
  IN  [l \in {Label(i - 1) : i \in survivors} |->
         models[CHOOSE i \in survivors : Label(i - 1) = l]]

\* labels filled for every configured model (this.models.map) instead of for
\* the stage1 entries
AnonymizeConfigured(stage1) ==
  [l \in {Label(i - 1) : i \in 1..Len(models)} |->
     models[CHOOSE i \in 1..Len(models) : Label(i - 1) = l]]

\* every entry filed under the label of index 0
AnonymizeUnderOneLabel(stage1) ==
  [l \in {Label(0)} |-> stage1[Len(stage1)].model]

\* stage2: the labelToModel that stage1.map fills
Anonymize(stage1) ==
  [l \in {Label(i) : i \in 0..(Len(stage1) - 1)} |->
     stage1[(CHOOSE i \in 0..(Len(stage1) - 1) : Label(i) = l) + 1].model]

\* stage2: the anonymized array stage1.map returns
anonymized(stage1) ==
  [k \in 1..Len(stage1) |->
     [label |-> Label(k - 1), text |-> stage1[k].response]]

\* the prompts, by the values their templates interpolate
QueryMessage(q) == [kind |-> "query", query |-> q]
buildRankingPrompt(q, responses) ==
  [kind |-> "ranking", query |-> q, responses |-> responses]
buildChairmanPrompt(q, stage1, stage2) ==
  [kind |-> "chairman", query |-> q, stage1 |-> stage1,
   stage2 |-> [k \in 1..Len(stage2) |->
                 [model |-> stage2[k].model,
                  evaluation |-> stage2[k].evaluation]]]

\* one provider.chat(model, [{role: 'user', content}]) call
Chat(stage, model, content) ==
  [stage |-> stage, model |-> model, content |-> content]

\* stage1: this.models.map(async (model) => ... provider.chat(model, ...))
ResponseRequests(content) ==
  [i \in 1..Len(models) |-> Chat(1, models[i], content)]

\* ranking requests sent to the Stage 1 survivors only
RankingRequestsToSurvivors(content) ==
  LET stage1 == Collect(results1)
  IN  [k \in 1..Len(stage1) |-> Chat(2, stage1[k].model, content)]

\* stage2: this.models.map(async (model) => ... provider.chat(model, ...))
RankingRequests(content) ==
  [i \in 1..Len(models) |-> Chat(2, models[i], content)]

\* a constructor that leaves the credential to the first request
apiKeyNotChecked(cfg) == FALSE

\* constructor: `config.provider === 'openrouter'` and `!config.apiKey`
\* (undefined and '' are falsy)
apiKeyMissing(cfg) ==
  cfg.provider = "openrouter" /\ (cfg.apiKey = Null \/ cfg.apiKey = Some(""))

\* new LLMCouncil(config): throws, or creates the provider object
Construct ==
  /\ pc = "new"
  /\ IF apiKeyMissing(config)
     THEN /\ thrown' = Some(ApiKeyRequiredMessage)
          /\ provider' = Null
          /\ pc' = "threw"
     ELSE /\ thrown' = Null
          /\ provider' = Some(config.provider)
          /\ pc' = "idle"
  /\ UNCHANGED <<others, models, chairmanModel, query, result, results1,
                 results2, results3, labelToModel, calls>>

\* run() up to its first suspension: stage1 issues one request per model
RunStart ==
  /\ pc = "idle"
  /\ pc' = "stage1"
  /\ result' = [query |-> query, stage1 |-> Null, stage2 |-> Null,
                stage3 |-> Null, error |-> Null]
  /\ calls' = calls \o ResponseRequests(QueryMessage(query))
  /\ results1' = [i \in 1..Len(models) |-> Pending]
  /\ UNCHANGED <<others, provider, thrown>>
  /\ UNCHANGED <<models, chairmanModel, query, results2, results3,
                 labelToModel>>

\* the Stage 1 request of models[i] returns a response
Stage1Fulfilled(i) ==
  /\ pc = "stage1"
  /\ i \in 1..Len(models)
  /\ results1[i].status = "pending"
  /\ \E response \in Responses :
       results1' = [results1 EXCEPT
                      ![i] = Fulfilled([model |-> models[i],
                                        response |-> response])]
  /\ UNCHANGED <<others, provider, thrown>>
  /\ UNCHANGED <<models, chairmanModel, query, pc, result, results2,
                 results3, labelToModel, calls>>

\* a failed Stage 1 request that is sent again
Stage1RejectedAndRetried(i) ==
  /\ pc = "stage1"
  /\ i \in 1..Len(models)
  /\ results1[i].status = "pending"
  /\ Len(calls) <= 2 * Len(models) + 1
  /\ calls' = Append(calls, Chat(1, models[i], QueryMessage(query)))
  /\ UNCHANGED <<others, provider, thrown>>
  /\ UNCHANGED <<models, chairmanModel, query, pc, result, results1, results2,
                 results3, labelToModel>>

\* the Stage 1 request of models[i] fails
Stage1Rejected(i) ==
  /\ pc = "stage1"
  /\ i \in 1..Len(models)
  /\ results1[i].status = "pending"
  /\ results1' = [results1 EXCEPT ![i] = Rejected(RequestError)]
  /\ UNCHANGED <<others, provider, thrown>>
  /\ UNCHANGED <<models, chairmanModel, query, pc, result, results2,
                 results3, labelToModel, calls>>

\* stage1 resumes after Promise.allSettled; run() stores its entries and
\* enters stage2 up to its suspension, or records the Stage 1 error
Stage1Done ==
  /\ pc = "stage1"
  /\ allSettled(results1)
  /\ LET entries == stage1Entries(results1)
     IN  IF stage1Fails(entries)
         THEN /\ result' = [result EXCEPT
                   !.error = Some(ErrorText(Stage1FailedPrefix,
                                            AllModelsFailedMessage))]
              /\ pc' = "done"
              /\ UNCHANGED <<results2, labelToModel, calls>>
         ELSE /\ result' = [result EXCEPT !.stage1 = Some(entries)]
              /\ labelToModel' = Anonymize(entries)
              /\ calls' = calls \o
                   RankingRequests(buildRankingPrompt(query,
                                                      anonymized(entries)))
              /\ results2' = [i \in 1..Len(models) |-> Pending]
              /\ pc' = "stage2"
  /\ UNCHANGED <<others, provider, thrown>>
  /\ UNCHANGED <<models, chairmanModel, query, results1, results3>>

\* the ranking request of models[i] returns an evaluation, which is parsed
Stage2Fulfilled(i) ==
  /\ pc = "stage2"
  /\ i \in 1..Len(models)
  /\ results2[i].status = "pending"
  /\ \E evaluation \in Evaluations :
       results2' = [results2 EXCEPT
                      ![i] = Fulfilled([model |-> models[i],
                                        evaluation |-> evaluation,
                                        parsed_ranking |->
                                          parseRanking(evaluation)])]
  /\ UNCHANGED <<others, provider, thrown>>
  /\ UNCHANGED <<models, chairmanModel, query, pc, result, results1,
                 results3, labelToModel, calls>>

\* the ranking request of models[i] fails
Stage2Rejected(i) ==
  /\ pc = "stage2"
  /\ i \in 1..Len(models)
  /\ results2[i].status = "pending"
  /\ results2' = [results2 EXCEPT ![i] = Rejected(RequestError)]
  /\ UNCHANGED <<others, provider, thrown>>
  /\ UNCHANGED <<models, chairmanModel, query, pc, result, results1,
                 results3, labelToModel, calls>>

\* stage2 resumes after Promise.allSettled; run() stores the Stage2Result and
\* enters stage3, which asks the chairman, or records the Stage 2 error
Stage2Done ==
  /\ pc = "stage2"
  /\ allSettled(results2)
  /\ LET rankings == stage2Rankings(results2)
     IN  IF aggregateThrows(rankings, labelToModel)
         THEN /\ result' = [result EXCEPT
                   !.error = Some(ErrorText(Stage2FailedPrefix,
                                            PushTypeErrorMessage))]
              /\ pc' = "done"
              /\ UNCHANGED <<results3, calls>>
         ELSE /\ result' = [result EXCEPT
                   !.stage2 = Some(
                     [rankings |-> rankings,
                      label_to_model |-> labelToModel,
                      aggregate_rankings |->
                        calculateAggregateRankings(rankings, labelToModel)])]
              /\ calls' = Append(calls,
                   Chat(3, chairmanModel,
                        buildChairmanPrompt(query, Get(result.stage1),
                                            rankings)))
              /\ results3' = <<Pending>>
              /\ pc' = "stage3"
  /\ UNCHANGED <<others, provider, thrown>>
  /\ UNCHANGED <<models, chairmanModel, query, results1, results2,
                 labelToModel>>

\* the chairman's request returns the synthesis
Stage3Fulfilled ==
  /\ pc = "stage3"
  /\ results3' = <<Fulfilled(Synthesis)>>
  /\ result' = [result EXCEPT
                  !.stage3 = Some([model |-> chairmanModel,
                                   response |-> Synthesis])]
  /\ pc' = "done"
  /\ UNCHANGED <<others, provider, thrown>>
  /\ UNCHANGED <<models, chairmanModel, query, results1, results2,
                 labelToModel, calls>>

\* a chairman failure that falls back to the first council model
Stage3RejectedWithFallback ==
  /\ pc = "stage3"
  /\ \E message \in ErrorMessages :
       /\ results3' = <<Rejected(message)>>
       /\ result' = [result EXCEPT
                       !.error = Some(ErrorText(Stage3FailedPrefix, message))]
  /\ calls' = Append(calls, [calls[Len(calls)] EXCEPT !.model = models[1]])
  /\ pc' = "done"
  /\ UNCHANGED <<others, provider, thrown>>
  /\ UNCHANGED <<models, chairmanModel, query, results1, results2,
                 labelToModel>>

\* a chairman failure that escapes run(): the returned promise rejects and
\* no result is returned
Stage3RejectedUnhandled ==
  /\ pc = "stage3"
  /\ \E message \in ErrorMessages : results3' = <<Rejected(message)>>
  /\ pc' = "rejected"
  /\ UNCHANGED <<others, provider, thrown>>
  /\ UNCHANGED <<models, chairmanModel, query, result, results1, results2,
                 labelToModel, calls>>

\* the chairman's request fails
Stage3Rejected ==
  /\ pc = "stage3"
  /\ \E message \in ErrorMessages :
       /\ results3' = <<Rejected(message)>>
       /\ result' = [result EXCEPT
                       !.error = Some(ErrorText(Stage3FailedPrefix, message))]
  /\ pc' = "done"
  /\ UNCHANGED <<others, provider, thrown>>
  /\ UNCHANGED <<models, chairmanModel, query, results1, results2,
                 labelToModel, calls>>

Next ==
  \/ Construct
  \/ RunStart
  \/ \E i \in 1..MaxModels : Stage1Fulfilled(i)
  \/ \E i \in 1..MaxModels : Stage1Rejected(i)
  \/ Stage1Done
  \/ \E i \in 1..MaxModels : Stage2Fulfilled(i)
  \/ \E i \in 1..MaxModels : Stage2Rejected(i)
  \/ Stage2Done
  \/ Stage3Fulfilled
  \/ Stage3Rejected

Spec == Init /\ [][Next]_vars

\* ENABLED <<Stage2Done>>_vars: the guard of Stage2Done, whose two branches
\* both change pc
Stage2DoneEnabled == pc = "stage2" /\ allSettled(results2)

\* a run in which every request that was sent settles and every continuation
\* that became ready (the code after an await) is run by the event loop:
\* each request carries AbortSignal.timeout, so a request that stays pending
\* is rejected; the last conjunct is WF_vars(Stage2Done) written out
FairSpec ==
  /\ Spec
  /\ \A i \in 1..MaxModels :
       /\ WF_vars(Stage1Rejected(i))
       /\ WF_vars(Stage2Rejected(i))
  /\ WF_vars(Stage3Rejected)
  /\ WF_vars(Stage1Done)
  /\ ([]<>~Stage2DoneEnabled \/ []<><<Stage2Done>>_vars)

\* ------------------------------------------------------------------------
\* parseRanking called on its own
\* ------------------------------------------------------------------------

\* most phrases of one evaluation text
MaxParts == 3

\* the phrases evaluation texts are made of: 'marker' and 'block' stand for
\* the texts below, every other phrase is its own text
Phrases ==
  {"marker", "block", "1. Response A", "2.Response B", "Response A", "Response B",
   "1. A", "2.B", "A", "B", ">", "B > A", " ", "x", ",", "Cat"}

PhraseText ==
  [p \in Phrases |->
     CASE p = "marker"        -> FinalRankingLit
       [] p = "block"         -> FinalRankingLit \o NL \o One \o ResponseLit
                                   \o <<"B">> \o NL \o Two \o ResponseLit
                                   \o <<"A">>
       [] p = "1. Response A" -> One \o ResponseLit \o <<"A">>
       [] p = "2.Response B"  -> <<"2", ".">> \o ResponseLit \o <<"B">>
       [] p = "Response A"    -> ResponseLit \o <<"A">>
       [] p = "Response B"    -> ResponseLit \o <<"B">>
       [] p = "1. A"          -> One \o <<"A">>
       [] p = "2.B"           -> <<"2", ".", "B">>
       [] p = "B > A"         -> <<"B", " ", ">", " ", "A">>
       [] p = "Cat"           -> <<"C", "a", "t">>
       [] OTHER               -> <<p>>]

\* the evaluation text: the phrases joined
RECURSIVE Text(_)
Text(ps) == IF ps = <<>> THEN <<>> ELSE PhraseText[ps[1]] \o Text(Tail(ps))

ParseInit ==
  /\ parts \in SeqsUpTo(Phrases, MaxParts)
  /\ parsed = Null
  /\ aggArgs = Null
  /\ aggregates = Null
  /\ pc = "text"
  /\ config = [provider |-> "ollama", apiKey |-> Null]
  /\ provider = Null
  /\ thrown = Null
  /\ models = <<>>
  /\ chairmanModel = ""
  /\ query = ""
  /\ result = [query |-> "", stage1 |-> Null, stage2 |-> Null,
               stage3 |-> Null, error |-> Null]
  /\ results1 = <<>>
  /\ results2 = <<>>
  /\ results3 = <<>>
  /\ labelToModel = <<>>
  /\ calls = <<>>

\* parseRanking(text) returns
Parse ==
  /\ pc = "text"
  /\ parsed' = Some(parseRanking(Text(parts)))
  /\ pc' = "parsed"
  /\ UNCHANGED <<config, provider, thrown, parts, aggArgs, aggregates,
                 models, chairmanModel, query, result, results1, results2,
                 results3, labelToModel, calls>>

ParseNext == Parse

ParseSpec == ParseInit /\ [][ParseNext]_vars

\* ------------------------------------------------------------------------
\* calculateAggregateRankings called on its own
\* ------------------------------------------------------------------------

\* most evaluators of one call
MaxEvaluators == 3

\* the labelToModel arguments: the three models of the tests, a model named
\* by a number, a model named like a property of Object.prototype, one model
\* under two labels, and a model with the empty name
LabelMaps ==
  { (Label(0) :> "model-1") @@ (Label(1) :> "model-2") @@ (Label(2) :> "model-3"),
    (Label(0) :> "model-1") @@ (Label(1) :> "9"),
    (Label(0) :> "constructor") @@ (Label(1) :> "model-2"),
    (Label(0) :> "model-1") @@ (Label(1) :> "model-1"),
    (Label(0) :> "") @@ (Label(1) :> "model-2") }

\* the parsed_ranking values: the orders of three labels, shorter rankings,
\* a repeated label, and none
ParsedRankings ==
  { <<Label(2), Label(0), Label(1)>>, <<Label(0), Label(2), Label(1)>>,
    <<Label(2), Label(1), Label(0)>>, <<Label(0), Label(1), Label(2)>>,
    <<Label(1), Label(0), Label(2)>>, <<Label(1), Label(2), Label(0)>>,
    <<Label(1), Label(0)>>, <<Label(0), Label(1)>>,
    <<Label(0), Label(0)>>, <<>> }

\* the Stage2Ranking entries of the tests: only parsed_ranking is read
Stage2RankingOf(parsed_ranking) ==
  [model |-> "model-1", evaluation |-> <<>>, parsed_ranking |-> parsed_ranking]

AggInit ==
  /\ \E rs \in SeqsUpTo(ParsedRankings, MaxEvaluators), map \in LabelMaps :
       aggArgs = Some([rankings |-> [k \in 1..Len(rs) |-> Stage2RankingOf(rs[k])],
                       labelToModel |-> map])
  /\ aggregates = Null
  /\ thrown = Null
  /\ pc = "args"
  /\ parts = <<>>
  /\ parsed = Null
  /\ config = [provider |-> "ollama", apiKey |-> Null]
  /\ provider = Null
  /\ models = <<>>
  /\ chairmanModel = ""
  /\ query = ""
  /\ result = [query |-> "", stage1 |-> Null, stage2 |-> Null,
               stage3 |-> Null, error |-> Null]
  /\ results1 = <<>>
  /\ results2 = <<>>
  /\ results3 = <<>>
  /\ labelToModel = <<>>
  /\ calls = <<>>

\* calculateAggregateRankings(rankings, labelToModel) returns or throws
AggregateCall ==
  /\ pc = "args"
  /\ LET a == Get(aggArgs)
     IN  IF aggregateThrows(a.rankings, a.labelToModel)
         THEN /\ thrown' = Some(PushTypeErrorMessage)
              /\ aggregates' = Null
         ELSE /\ thrown' = Null
              /\ aggregates' =
                   Some(calculateAggregateRankings(a.rankings, a.labelToModel))
  /\ pc' = "aggregated"
  /\ UNCHANGED <<config, provider, parts, parsed, aggArgs, models,
                 chairmanModel, query, result, results1, results2, results3,
                 labelToModel, calls>>

AggNext == AggregateCall

AggSpec == AggInit /\ [][AggNext]_vars

\* ------------------------------------------------------------------------
\* Properties of run()
\* ------------------------------------------------------------------------

Returned == pc = "done"

\* indices of the fulfilled promises
Succeeded(results) == {i \in 1..Len(results) : results[i].status = "fulfilled"}

\* entries holds the values of the fulfilled promises, lowest index first
SuccessesInOrder(entries, results) ==
  /\ Len(entries) = Cardinality(Succeeded(results))
  /\ \A i \in Succeeded(results) :
       entries[Cardinality({j \in Succeeded(results) : j <= i})]
         = Get(results[i].value)

\* positions in calls of the requests of one stage
CallsOf(stage) == {k \in 1..Len(calls) : calls[k].stage = stage}

ErrorNames(prefix) ==
  result.error # <<>> /\ result.error[1].prefix = prefix

\* C1: in a returned result stage2 is set only if stage1 is, stage3 only if
\* stage2 is, error is set exactly when stage3 is null, and a set error names
\* exactly the first stage whose field is null, all earlier stage fields
\* being set and all later ones null.
C1_StagePrefixInvariant ==
  Returned =>
    LET field == <<result.stage1, result.stage2, result.stage3>>
        names == <<"Stage 1 failed: ", "Stage 2 failed: ", "Stage 3 failed: ">>
    IN  /\ (result.stage2 # <<>> => result.stage1 # <<>>)
        /\ (result.stage3 # <<>> => result.stage2 # <<>>)
        /\ (result.error # <<>> <=> result.stage3 = <<>>)
        /\ result.error # <<>> =>
             \E k \in 1..3 :
               /\ result.error[1].prefix = names[k]
               /\ \A j \in 1..3 : (field[j] = <<>>) <=> (j >= k)

\* C1 witness: a run returned with stage1 and stage2 set and a Stage 3 error
C1_Witness ==
  /\ Returned
  /\ result.stage1 # <<>> /\ result.stage2 # <<>> /\ result.stage3 = <<>>
  /\ ErrorNames("Stage 3 failed: ")

\* C2: Stage 1 aborts the run exactly when no Stage 1 call succeeded; the
\* result then has all three stages null and the error 'Stage 1 failed: All
\* models failed ...'.  With at least one success, stage1 is set and no
\* Stage 1 error is recorded, however many other Stage 1 calls failed.
C2_Stage1AbortsIffNoSuccess ==
  pc \in {"stage2", "stage3", "done"} =>
    IF Succeeded(results1) = {}
    THEN /\ Returned
         /\ result.stage1 = <<>> /\ result.stage2 = <<>> /\ result.stage3 = <<>>
         /\ result.error =
              <<[prefix  |-> "Stage 1 failed: ",
                 message |-> "All models failed to respond in Stage 1"]>>
    ELSE /\ result.stage1 # <<>>
         /\ ~ErrorNames("Stage 1 failed: ")
         /\ (pc = "stage2" => result.error = <<>>)

\* C2 witness: two configured models, both Stage 1 calls failed, run aborted
C2_Witness ==
  /\ Returned
  /\ Len(models) = 2
  /\ Succeeded(results1) = {}
  /\ ErrorNames("Stage 1 failed: ")

\* C3: when the chairman call fails with message M the run returns stage1
\* and stage2 as the stages produced them, stage3 null and the error
\* 'Stage 3 failed: ' followed by M; the chairman was asked once, and
\* nobody was asked after it.
C3_ChairmanFailure ==
  (Returned /\ results3 # <<>> /\ results3[1].status = "rejected") =>
    /\ result.stage1 # <<>>
    /\ SuccessesInOrder(result.stage1[1], results1)
    /\ result.stage2 # <<>>
    /\ SuccessesInOrder(result.stage2[1].rankings, results2)
    /\ result.stage3 = <<>>
    /\ result.error = <<[prefix  |-> "Stage 3 failed: ",
                         message |-> results3[1].reason[1]]>>
    /\ Cardinality(CallsOf(3)) = 1
    /\ calls[Len(calls)].stage = 3
    /\ calls[Len(calls)].model = chairmanModel

\* C3 witness: the chairman call failed with the rate-limit message after two
\* models answered and ranked
C3_Witness ==
  /\ Returned
  /\ results3 = <<Rejected("OpenRouter API error (429): rate limited")>>
  /\ Cardinality(Succeeded(results1)) = 2
  /\ Cardinality(Succeeded(results2)) = 2

\* C4: Stage 2 never aborts the run: with at least one Stage 1 success the
\* returned result has stage2 set and the chairman was asked, whatever number
\* of ranking calls failed (all of them: rankings and aggregate_rankings are
\* empty), and no returned result carries a Stage 2 error.
C4_Stage2NeverAborts ==
  Returned =>
    /\ Succeeded(results1) # {} =>
         /\ result.stage2 # <<>>
         /\ CallsOf(3) # {}
         /\ Succeeded(results2) = {} =>
              /\ result.stage2[1].rankings = <<>>
              /\ result.stage2[1].aggregate_rankings = <<>>
    /\ ~ErrorNames("Stage 2 failed: ")

\* C5: a run aborted by Stage 1 has made no ranking and no chairman request,
\* and a step that leaves the run aborted (the aborting step and every step
\* after it) initiates no provider call.
C5_NoCallAfterAbort ==
  /\ [](ErrorNames("Stage 1 failed: ") => CallsOf(2) \cup CallsOf(3) = {})
  /\ [][result'.error # <<>> => calls' = calls]_vars

\* C5 witness: aborted by the chairman's failure, the chairman's request
\* being the last one made
C5_Witness ==
  /\ Returned
  /\ ErrorNames("Stage 3 failed: ")
  /\ Len(calls) = 2 * Len(models) + 1
  /\ calls[Len(calls)].stage = 3

\* C6: requests are made stage by stage; a ranking request exists only when
\* every Stage 1 call has settled, and the chairman's request only when
\* every ranking call has settled.
C6_WaitForAllJoin ==
  /\ \A j, k \in 1..Len(calls) : j < k => calls[j].stage <= calls[k].stage
  /\ CallsOf(2) # {} =>
       \A i \in 1..Len(results1) : results1[i].status # "pending"
  /\ CallsOf(3) # {} =>
       /\ Len(results2) = Len(models)
       /\ \A i \in 1..Len(results2) : results2[i].status # "pending"

\* C6 witness: the ranking requests were made after one Stage 1 call had
\* succeeded and the other had failed, and one ranking call is still pending
\* while another has settled, with no chairman request
C6_Witness ==
  /\ pc = "stage2"
  /\ Len(models) = 2
  /\ results1[1].status = "fulfilled" /\ results1[2].status = "rejected"
  /\ results2[1].status = "pending" /\ results2[2].status = "fulfilled"
  /\ CallsOf(2) # {} /\ CallsOf(3) = {}

\* C7: result.stage1 is the (model, response) pairs of the configured models
\* whose Stage 1 call succeeded, in configured-list order.
C7_Stage1InConfiguredOrder ==
  result.stage1 # <<>> =>
    LET entries == result.stage1[1]
    IN  /\ SuccessesInOrder(entries, results1)
        /\ \A i \in Succeeded(results1) :
             LET e == entries[Cardinality({j \in Succeeded(results1) : j <= i})]
             IN  e.model = models[i] /\ e.response \in Responses

\* C7 witness: two different models both answered, with different responses
C7_Witness ==
  /\ result.stage1 # <<>>
  /\ Len(result.stage1[1]) = 2
  /\ result.stage1[1][1].model # result.stage1[1][2].model
  /\ result.stage1[1][1].response # result.stage1[1][2].response

\* C8: stage2.rankings has one entry per configured model whose ranking call
\* succeeded, in configured-list order, with the evaluation text returned;
\* an empty parse is kept, a failed call has no entry.
C8_RankingsInConfiguredOrder ==
  result.stage2 # <<>> =>
    LET rankings == result.stage2[1].rankings
    IN  /\ SuccessesInOrder(rankings, results2)
        /\ \A i \in Succeeded(results2) :
             LET r == rankings[Cardinality({j \in Succeeded(results2) : j <= i})]
             IN  r.model = models[i] /\ r.evaluation \in Evaluations

\* C8 witness: the first evaluator failed and the second returned a text
\* that parses to nothing; rankings holds the second alone
C8_Witness ==
  /\ result.stage2 # <<>>
  /\ Len(models) = 2
  /\ results2[1].status = "rejected"
  /\ Len(result.stage2[1].rankings) = 1
  /\ result.stage2[1].rankings[1].parsed_ranking = <<>>

\* C9: once Stage 1 has succeeded, exactly one ranking request has been made
\* per configured model, in list order, whether or not the model's own
\* Stage 1 call succeeded.
C9_EveryConfiguredModelRanks ==
  result.stage1 # <<>> =>
    LET n == Len(models)
    IN  /\ Cardinality(CallsOf(2)) = n
        /\ Len(calls) >= 2 * n
        /\ \A i \in 1..n :
             /\ calls[n + i].stage = 2
             /\ calls[n + i].model = models[i]
             /\ calls[n + i].content.kind = "ranking"

\* C9 witness: a model whose Stage 1 call failed is an evaluator in
\* stage2.rankings and owns no label
C9_Witness ==
  /\ result.stage2 # <<>>
  /\ \E i \in 1..Len(models) :
       /\ results1[i].status = "rejected"
       /\ \E k \in 1..Len(result.stage2[1].rankings) :
            result.stage2[1].rankings[k].model = models[i]
       /\ \A l \in DOMAIN result.stage2[1].label_to_model :
            result.stage2[1].label_to_model[l] # models[i]

\* C10: label_to_model has exactly one key per stage1 entry, 'Response A'
\* onwards, and the label with the i-th letter maps to the model of the
\* i-th stage1 entry (so it is a function of the ordered stage1 alone).
C10_LabelsByStage1Position ==
  (result.stage2 # <<>> /\ Len(result.stage1[1]) <= 26) =>
    LET stage1 == result.stage1[1]
        map    == result.stage2[1].label_to_model
        label(i) == <<"R","e","s","p","o","n","s","e"," ", Upper[i]>>
    IN  /\ Cardinality(DOMAIN map) = Len(stage1)
        /\ \A i \in 1..Len(stage1) :
             label(i) \in DOMAIN map /\ map[label(i)] = stage1[i].model

\* C10 witness: the first configured model failed in Stage 1, so 'Response A'
\* is the second configured model
C10_Witness ==
  /\ result.stage2 # <<>>
  /\ Len(models) = 2
  /\ models[1] # models[2]
  /\ results1[1].status = "rejected"
  /\ result.stage2[1].label_to_model
       = (<<"R","e","s","p","o","n","s","e"," ","A">> :> models[2])

\* C11: whenever Stage 2 completes, label_to_model is a bijection between the
\* labels and the Stage 1 models: distinct labels map to distinct model
\* identities, and every stage1 model has exactly one label.
C11_LabelsBijective ==
  result.stage2 # <<>> =>
    LET stage1 == result.stage1[1]
        map    == result.stage2[1].label_to_model
    IN  /\ \A l1, l2 \in DOMAIN map : l1 # l2 => map[l1] # map[l2]
        /\ \A k \in 1..Len(stage1) :
             Cardinality({l \in DOMAIN map : map[l] = stage1[k].model}) = 1

\* C11 amended: whenever Stage 2 completes, label_to_model is a bijection
\* between the labels and the stage1 entries (one label per entry, the label
\* of an entry mapping to that entry's model); distinct labels map to
\* distinct model identities exactly when the stage1 entries have pairwise
\* distinct models, and a model with n stage1 entries has n labels.
C11_LabelsBijectiveOnEntries ==
  result.stage2 # <<>> =>
    LET stage1 == result.stage1[1]
        map    == result.stage2[1].label_to_model
        distinctModels ==
          \A j, k \in 1..Len(stage1) : j # k => stage1[j].model # stage1[k].model
    IN  /\ Cardinality(DOMAIN map) = Len(stage1)
        /\ \A k \in 1..Len(stage1) :
             Cardinality({l \in DOMAIN map : map[l] = stage1[k].model})
               = Cardinality({j \in 1..Len(stage1) :
                                stage1[j].model = stage1[k].model})
        /\ (\A l1, l2 \in DOMAIN map : l1 # l2 => map[l1] # map[l2])
             <=> distinctModels

\* C11 witness: the same model configured twice answered twice and holds
\* both labels
C11_Witness ==
  /\ result.stage2 # <<>>
  /\ Len(result.stage1[1]) = 2
  /\ result.stage1[1][1].model = result.stage1[1][2].model
  /\ Cardinality(DOMAIN result.stage2[1].label_to_model) = 2

\* C12: in a result with stage2 set, every model of aggregate_rankings is the
\* model of a stage1 entry, and a configured model none of whose Stage 1
\* calls succeeded has no label and no aggregate, whatever the evaluations
\* mention.
C12_OnlyStage1ModelsRanked ==
  result.stage2 # <<>> =>
    LET stage1  == result.stage1[1]
        map     == result.stage2[1].label_to_model
        agg     == result.stage2[1].aggregate_rankings
        answered == {stage1[k].model : k \in 1..Len(stage1)}
        failed  == {models[i] : i \in 1..Len(models)}
                     \ {models[i] : i \in Succeeded(results1)}
    IN  /\ \A k \in 1..Len(agg) : agg[k].model \in answered
        /\ \A m \in failed :
             /\ \A l \in DOMAIN map : map[l] # m
             /\ \A k \in 1..Len(agg) : agg[k].model # m

\* C12 witness: the second model failed in Stage 1, an evaluation ranks
\* 'Response B' first, which nobody owns, and the aggregate holds the first
\* model alone
C12_Witness ==
  /\ result.stage2 # <<>>
  /\ Len(models) = 2
  /\ models[1] # models[2]
  /\ results1[2].status = "rejected"
  /\ \E k \in 1..Len(result.stage2[1].rankings) :
       result.stage2[1].rankings[k].parsed_ranking
         = << <<"R","e","s","p","o","n","s","e"," ","B">>,
              <<"R","e","s","p","o","n","s","e"," ","A">> >>
  /\ Len(result.stage2[1].aggregate_rankings) = 1
  /\ result.stage2[1].aggregate_rankings[1].model = models[1]

\* C13: a council configured with provider 'openrouter' and no apiKey is
\* never constructed: the constructor throws 'apiKey is required ...', no
\* provider object exists, run() never starts and no provider call is made.
C13_NoCouncilWithoutApiKey ==
  (config.provider = "openrouter" /\ config.apiKey \in {<<>>, <<"">>}) =>
    /\ pc \in {"new", "threw"}
    /\ provider = <<>>
    /\ calls = <<>>
    /\ result.stage1 = <<>> /\ result.stage2 = <<>> /\ result.stage3 = <<>>
    /\ pc = "threw" =>
         thrown = <<"apiKey is required for the openrouter provider">>

\* C13 witness: the constructor threw for openrouter without an apiKey, with
\* models configured
C13_Witness ==
  /\ pc = "threw"
  /\ config = [provider |-> "openrouter", apiKey |-> <<>>]
  /\ Len(models) > 0
  /\ thrown # <<>>

\* ------------------------------------------------------------------------
\* Properties of parseRanking
\* ------------------------------------------------------------------------

\* the label whose letter is c
LabelOf(c) == <<"R","e","s","p","o","n","s","e"," ", c>>

Capital == {"A","B","C","D","E","F","G","H","I","J","K","L","M",
            "N","O","P","Q","R","S","T","U","V","W","X","Y","Z"}
Blank == {" ", "\n", "\t"}
WordChar == Capital \cup {"_"}
              \cup {"a","b","c","d","e","f","g","h","i","j","k","l","m",
                    "n","o","p","q","r","s","t","u","v","w","x","y","z"}
              \cup {"0","1","2","3","4","5","6","7","8","9"}

\* how a reader takes the phrases: the numbered full labels a phrase holds,
\* and the labels it mentions at all
NumberedIn ==
  [p \in Phrases |->
     CASE p = "block"         -> <<LabelOf("B"), LabelOf("A")>>
       [] p = "1. Response A" -> <<LabelOf("A")>>
       [] p = "2.Response B"  -> <<LabelOf("B")>>
       [] OTHER               -> <<>>]

MentionedIn ==
  [p \in Phrases |->
     CASE p = "Response A" -> <<LabelOf("A")>>
       [] p = "Response B" -> <<LabelOf("B")>>
       [] OTHER            -> NumberedIn[p]]

\* f[ps[from]] \o ... \o f[ps[Len(ps)]]
RECURSIVE Gather(_, _, _)
Gather(f, ps, from) ==
  IF from > Len(ps) THEN <<>> ELSE f[ps[from]] \o Gather(f, ps, from + 1)

\* the phrase that holds the first marker, 0 when there is none
MarkerAt(ps) ==
  LET held == {k \in 1..Len(ps) : ps[k] \in {"marker", "block"}}
  IN  IF held = {} THEN 0 ELSE CHOOSE k \in held : \A j \in held : k <= j

NumberedAll(ps) == Gather(NumberedIn, ps, 1)
MentionedAll(ps) == Gather(MentionedIn, ps, 1)
NumberedAfterMarker(ps) ==
  IF MarkerAt(ps) = 0 THEN <<>> ELSE Gather(NumberedIn, ps, MarkerAt(ps))

\* the numbered bare letters after the marker: 'digits. letter' followed by
\* white space, a comma, a period or the end of the text
BareItemAt(ps, k) ==
  /\ ps[k] \in {"1. A", "2.B"}
  /\ k = Len(ps) \/ ps[k + 1] \in {" ", ","}

RECURSIVE BareItemsFrom(_, _)
BareItemsFrom(ps, k) ==
  IF k > Len(ps) THEN <<>>
  ELSE (IF BareItemAt(ps, k)
        THEN <<LabelOf(IF ps[k] = "1. A" THEN "A" ELSE "B")>>
        ELSE <<>>) \o BareItemsFrom(ps, k + 1)

BareAfterMarker(ps) ==
  IF MarkerAt(ps) = 0 THEN <<>> ELSE BareItemsFrom(ps, MarkerAt(ps) + 1)

\* out holds the distinct elements of seq, ordered by first appearance
IsFirstSeenOrder(out, seq) ==
  LET first(x) == CHOOSE k \in 1..Len(seq) :
                    seq[k] = x /\ \A j \in 1..(k - 1) : seq[j] # x
  IN  /\ \A j, k \in 1..Len(out) : j # k => out[j] # out[k]
      /\ {out[k] : k \in 1..Len(out)} = {seq[k] : k \in 1..Len(seq)}
      /\ \A j, k \in 1..Len(out) : j < k => first(out[j]) < first(out[k])

\* two capital letters with a '>' between them, white space apart
HasGtBetweenCapitals(t) ==
  \E a, g, b \in 1..Len(t) :
    /\ a < g /\ g < b
    /\ t[a] \in Capital /\ t[g] = ">" /\ t[b] \in Capital
    /\ \A k \in (a + 1)..(b - 1) : k # g => t[k] \in Blank

\* C14: when the text holds the marker and numbered full labels from the
\* marker on, parseRanking returns exactly those labels, in order, whatever
\* phrases (mentions and numbered items included) stand before the marker.
C14_HeaderedNumberedList ==
  (pc = "parsed" /\ NumberedAfterMarker(parts) # <<>>) =>
    parsed = <<NumberedAfterMarker(parts)>>

\* C14 witness: a numbered item and a mention before the block, whose two
\* labels alone are returned
C14_Witness ==
  /\ pc = "parsed"
  /\ parts = <<"1. Response A", "Response A", "block">>
  /\ parsed = << <<LabelOf("B"), LabelOf("A")>> >>

\* C15: for a text without marker that mentions labels, parseRanking returns
\* the distinct labels mentioned, in first-appearance order.
C15_MentionOrder ==
  (pc = "parsed" /\ MarkerAt(parts) = 0 /\ MentionedAll(parts) # <<>>) =>
    IsFirstSeenOrder(parsed[1], MentionedAll(parts))

\* C15 amended: for a text without marker and without numbered full label
\* that mentions labels, parseRanking returns the distinct labels mentioned,
\* in first-appearance order.
C15_MentionOrderWithoutNumbered ==
  (pc = "parsed" /\ MarkerAt(parts) = 0 /\ NumberedAll(parts) = <<>>
     /\ MentionedAll(parts) # <<>>) =>
    IsFirstSeenOrder(parsed[1], MentionedAll(parts))

\* C15 witness: B, A, B mentioned without marker or numbers gives B, A
C15_Witness ==
  /\ pc = "parsed"
  /\ parts = <<"Response B", "Response A", "Response B">>
  /\ parsed = << <<LabelOf("B"), LabelOf("A")>> >>

C17_HeaderedBareLetters ==
  (pc = "parsed" /\ MarkerAt(parts) # 0 /\ NumberedAfterMarker(parts) = <<>>
     /\ BareAfterMarker(parts) # <<>>) =>
    parsed = <<BareAfterMarker(parts)>>

\* C17 witness: '2.B' followed by a comma after the marker gives Response B
C17_Witness ==
  /\ pc = "parsed"
  /\ parts = <<"marker", "2.B", ",">>
  /\ parsed = << <<LabelOf("B")>> >>

\* C18: the numbered list of the whole text is used only without marker: a
\* marker-free text with numbered full labels gives them in order, and a text
\* with the marker whose block matches nothing does not give the numbered
\* items before the marker but the mentions, deduplicated.
C18_UnheaderedOnlyWithoutMarker ==
  pc = "parsed" =>
    /\ (MarkerAt(parts) = 0 /\ NumberedAll(parts) # <<>>) =>
         parsed = <<NumberedAll(parts)>>
    /\ (/\ MarkerAt(parts) # 0
        /\ NumberedAfterMarker(parts) = <<>>
        /\ BareAfterMarker(parts) = <<>>
        /\ NumberedAll(parts) # <<>>) =>
         IsFirstSeenOrder(parsed[1], MentionedAll(parts))

\* C18 amended: the numbered list of the whole text is used whenever the
\* marker block gave nothing, with or without marker: a marker-free text
\* with numbered full labels gives them in order, and so does a text with
\* the marker whose block matches nothing (the items before the marker, in
\* order, repeated as often as they are written).
C18_UnheaderedWheneverBlockEmpty ==
  (/\ pc = "parsed"
   /\ NumberedAfterMarker(parts) = <<>>
   /\ BareAfterMarker(parts) = <<>>
   /\ NumberedAll(parts) # <<>>) =>
    parsed = <<NumberedAll(parts)>>

\* C18 witness: a mention and a numbered item before a marker with nothing
\* after it: the numbered item is returned, the mention is not
C18_Witness ==
  /\ pc = "parsed"
  /\ parts = <<"Response B", "1. Response A", "marker">>
  /\ parsed = << <<LabelOf("A")>> >>

\* C19: the result is that of the first strategy with a match, in the order
\* headered numbered list, headered bare letters, numbered list, mentions,
\* '>' chain; a later strategy adds nothing to it.
C19_StrictPriority ==
  pc = "parsed" =>
    IF NumberedAfterMarker(parts) # <<>>
      THEN parsed[1] = NumberedAfterMarker(parts)
    ELSE IF BareAfterMarker(parts) # <<>>
      THEN parsed[1] = BareAfterMarker(parts)
    ELSE IF NumberedAll(parts) # <<>>
      THEN parsed[1] = NumberedAll(parts)
    ELSE IF MentionedAll(parts) # <<>>
      THEN IsFirstSeenOrder(parsed[1], MentionedAll(parts))
    ELSE /\ ~HasGtBetweenCapitals(Text(parts)) => parsed[1] = <<>>
         /\ \A k \in 1..Len(parsed[1]) :
              \E i \in 1..Len(Text(parts)) :
                parsed[1][k] = LabelOf(Text(parts)[i])

\* C19 witness: one mention and a '>' chain: the mention alone
C19_Witness ==
  /\ pc = "parsed"
  /\ parts = <<"Response A", " ", "B > A">>
  /\ parsed = << <<LabelOf("A")>> >>

\* a capital letter standing alone at position i of t
IsSingleCapital(t, i) ==
  /\ t[i] \in Capital
  /\ i = 1 \/ t[i - 1] \notin WordChar
  /\ i = Len(t) \/ t[i + 1] \notin WordChar

\* the single capital that follows the one at i across a '>', 0 if none
NextInRun(t, i) ==
  LET follows(j) ==
        /\ IsSingleCapital(t, j)
        /\ \E g \in (i + 1)..(j - 1) :
             /\ t[g] = ">"
             /\ \A k \in (i + 1)..(j - 1) : k # g => t[k] \in Blank
  IN  IF \E j \in (i + 1)..Len(t) : follows(j)
      THEN CHOOSE j \in (i + 1)..Len(t) : follows(j)
      ELSE 0

RECURSIVE RunFrom(_, _)
RunFrom(t, i) ==
  IF NextInRun(t, i) = 0 THEN <<i>> ELSE <<i>> \o RunFrom(t, NextInRun(t, i))

\* positions of the letters of the first run of single capitals separated
\* by '>', <<>> when the text has no such run
FirstRun(t) ==
  LET starts == {i \in 1..Len(t) : IsSingleCapital(t, i) /\ NextInRun(t, i) # 0}
  IN  IF starts = {} THEN <<>>
      ELSE RunFrom(t, CHOOSE i \in starts : \A j \in starts : i <= j)

\* C20: for a text with no marker and no mention (numbered or not) that holds
\* a run of single capital letters separated by '>', parseRanking returns
\* 'Response <letter>' for every letter of the first run, in the order
\* written.
C20_InequalityChain ==
  (/\ pc = "parsed"
   /\ MarkerAt(parts) = 0
   /\ MentionedAll(parts) = <<>>
   /\ FirstRun(Text(parts)) # <<>>) =>
    LET t   == Text(parts)
        run == FirstRun(t)
    IN  parsed = << [k \in 1..Len(run) |-> LabelOf(t[run[k]])] >>

\* C21: only single capital letters become labels: every label returned has
\* its letter standing alone somewhere in the text, so a capital that begins
\* a longer token ('Response Ax', 'B > Cat') contributes no label.
C21_SingleLettersOnly ==
  pc = "parsed" =>
    \A k \in 1..Len(parsed[1]) :
      \E i \in 1..Len(Text(parts)) :
        /\ IsSingleCapital(Text(parts), i)
        /\ parsed[1][k] = LabelOf(Text(parts)[i])

\* ------------------------------------------------------------------------
\* Properties of calculateAggregateRankings
\* ------------------------------------------------------------------------

\* the (evaluator, position) pairs whose label the mapping resolves to m
RanksOf(rankings, map, m) ==
  {<<e, i>> \in (1..Len(rankings)) \X (1..3) :
     /\ i <= Len(rankings[e].parsed_ranking)
     /\ rankings[e].parsed_ranking[i] \in DOMAIN map
     /\ map[rankings[e].parsed_ranking[i]] = m}

\* the models with at least one rank
RankedModels(rankings, map) ==
  {m \in {map[l] : l \in DOMAIN map} : RanksOf(rankings, map, m) # {}}

\* the sum of the positions of a set of (evaluator, position) pairs
RECURSIVE SumOfPositions(_)
SumOfPositions(S) ==
  IF S = {} THEN 0
  ELSE LET x == CHOOSE x \in S : TRUE IN x[2] + SumOfPositions(S \ {x})

\* a (in hundredths) is sum / count rounded half up to two decimals
IsMeanInHundredths(a, sum, count) ==
  /\ 2 * count * a <= 200 * sum + count
  /\ 200 * sum + count < 2 * count * (a + 1)

\* C22: the call outputs one entry per model that some resolved label named,
\* whose rankings_count is the number of (evaluator, position) pairs that
\* named it and whose average_rank is the mean of those positions (first
\* position 1, unresolved labels keeping their place) rounded half up to two
\* decimals.
C22_AggregateDefinition ==
  pc = "aggregated" =>
    /\ aggregates # <<>>
    /\ LET rankings == aggArgs[1].rankings
           map      == aggArgs[1].labelToModel
           out      == aggregates[1]
       IN  /\ Len(out) = Cardinality(RankedModels(rankings, map))
           /\ {out[k].model : k \in 1..Len(out)} = RankedModels(rankings, map)
           /\ \A k \in 1..Len(out) :
                LET ranks == RanksOf(rankings, map, out[k].model)
                IN  /\ out[k].rankings_count = Cardinality(ranks)
                    /\ IsMeanInHundredths(out[k].average_rank,
                                          SumOfPositions(ranks),
                                          Cardinality(ranks))

\* the place in the scan (evaluators in order, positions in order) where m
\* is first met
FirstMet(rankings, map, m) ==
  LET ranks == RanksOf(rankings, map, m)
      x == CHOOSE x \in ranks :
             \A y \in ranks : x[1] < y[1] \/ (x[1] = y[1] /\ x[2] <= y[2])
  IN  4 * x[1] + x[2]

\* C23: the output is sorted ascending by average_rank, and entries with
\* equal average_rank stand in the order in which their models were first
\* met in the scan of the rankings.
C23_SortedTiesInFirstMetOrder ==
  (pc = "aggregated" /\ aggregates # <<>>) =>
    LET rankings == aggArgs[1].rankings
        map      == aggArgs[1].labelToModel
        out      == aggregates[1]
    IN  \A j, k \in 1..Len(out) :
          j < k =>
            /\ out[j].average_rank <= out[k].average_rank
            /\ out[j].average_rank = out[k].average_rank =>
                 FirstMet(rankings, map, out[j].model)
                   < FirstMet(rankings, map, out[k].model)

\* a ranking without repeated label whose labels are all in the mapping
IsValidRanking(parsed_ranking, map) ==
  /\ \A i \in 1..Len(parsed_ranking) : parsed_ranking[i] \in DOMAIN map
  /\ \A i, j \in 1..Len(parsed_ranking) :
       i # j => parsed_ranking[i] # parsed_ranking[j]

\* C24: for one or more evaluators with valid rankings over the N labelled
\* models, every ranked model is given an average_rank between 1 and N and a
\* rankings_count not above the number of evaluators that ranked it.
C24_AverageWithinOneToN ==
  LET rankings == aggArgs[1].rankings
      map      == aggArgs[1].labelToModel
      N        == Cardinality(DOMAIN map)
  IN  (/\ pc = "aggregated"
       /\ Len(rankings) > 0
       /\ \A e \in 1..Len(rankings) :
            IsValidRanking(rankings[e].parsed_ranking, map)) =>
        /\ aggregates # <<>>
        /\ \A m \in RankedModels(rankings, map) :
             \E k \in 1..Len(aggregates[1]) :
               /\ aggregates[1][k].model = m
               /\ 100 <= aggregates[1][k].average_rank
               /\ aggregates[1][k].average_rank <= 100 * N
               /\ aggregates[1][k].rankings_count
                    <= Cardinality({x[1] : x \in RanksOf(rankings, map, m)})

\* C25: one attempt per model and stage: a started run has made exactly one
\* Stage 1 request per entry of the model list, in list order; no or one
\* Stage 2 request per entry, in list order; at most one request to the
\* chairman; every request owns one promise, so a failed one is never sent
\* again; and at most 2 * |models| + 1 requests in all.
C25_SingleAttempt ==
  LET n == Len(models)
  IN  /\ pc \in {"new", "threw", "idle"} => calls = <<>>
      /\ pc \in {"stage1", "stage2", "stage3", "done"} =>
           /\ Cardinality(CallsOf(1)) = n
           /\ \A i \in 1..n : calls[i].stage = 1 /\ calls[i].model = models[i]
           /\ Cardinality(CallsOf(2)) \in {0, n}
           /\ \A i \in 1..Cardinality(CallsOf(2)) :
                calls[n + i].stage = 2 /\ calls[n + i].model = models[i]
           /\ Cardinality(CallsOf(3)) <= 1
           /\ \A k \in CallsOf(3) : calls[k].model = chairmanModel
           /\ Len(calls) = Len(results1) + Len(results2) + Len(results3)
           /\ Len(calls) <= 2 * n + 1

\* C25 witness: a returned run of two models in which a Stage 1 request and a
\* ranking request failed, with five requests in all
C25_Witness ==
  /\ Returned
  /\ Len(models) = 2
  /\ \E i \in DOMAIN results1 : results1[i].status = "rejected"
  /\ \E i \in DOMAIN results2 : results2[i].status = "rejected"
  /\ Len(calls) = 5

\* the parsed ranking that puts Response B above Response A
RanksBAboveA(parsed_ranking) == parsed_ranking = <<LabelOf("B"), LabelOf("A")>>

\* the stage2 fields agree: every parsed_ranking is parseRanking of its
\* evaluation and aggregate_rankings is calculateAggregateRankings of the
\* rankings and the label map
Stage2FieldsAgree(stage2) ==
  /\ \A i \in 1..Len(stage2.rankings) :
       stage2.rankings[i].parsed_ranking
         = parseRanking(stage2.rankings[i].evaluation)
  /\ stage2.aggregate_rankings
       = calculateAggregateRankings(stage2.rankings, stage2.label_to_model)

\* two configured models both answered and every one of the one or more
\* evaluators ranked Response B above Response A
BothRankBAboveA(stage2) ==
  /\ Len(models) = 2
  /\ Succeeded(results1) = {1, 2}
  /\ stage2.rankings # <<>>
  /\ \A i \in 1..Len(stage2.rankings) :
       RanksBAboveA(stage2.rankings[i].parsed_ranking)

\* the model behind label B stands before the model behind label A
BPrecedesA(stage2) ==
  \E j, k \in 1..Len(stage2.aggregate_rankings) :
    /\ j < k
    /\ stage2.aggregate_rankings[j].model = stage2.label_to_model[LabelOf("B")]
    /\ stage2.aggregate_rankings[k].model = stage2.label_to_model[LabelOf("A")]

\* C26 as stated: in a result with stage2 set the three stage2 fields agree,
\* and when two configured models both answer and every evaluator ranks
\* Response B above Response A, the model behind B precedes the model behind
\* A in aggregate_rankings.
C26_Stage2Consistent ==
  (pc \in {"stage3", "done"} /\ result.stage2 # <<>>) =>
    /\ Stage2FieldsAgree(result.stage2[1])
    /\ BothRankBAboveA(result.stage2[1]) => BPrecedesA(result.stage2[1])

\* C26 amended: the same, the order being claimed when the two configured
\* models are two different identities.
C26_Stage2ConsistentForDistinctModels ==
  (pc \in {"stage3", "done"} /\ result.stage2 # <<>>) =>
    /\ Stage2FieldsAgree(result.stage2[1])
    /\ (BothRankBAboveA(result.stage2[1]) /\ models[1] # models[2]) =>
         BPrecedesA(result.stage2[1])

\* C26 witness: a returned run of two different models that both answered
\* and both ranked Response B above Response A
C26_Witness ==
  /\ Returned
  /\ result.stage2 # <<>>
  /\ BothRankBAboveA(result.stage2[1])
  /\ models[1] # models[2]
  /\ Len(result.stage2[1].rankings) = 2
  /\ BPrecedesA(result.stage2[1])

\* C27: in a result with stage2 set, no aggregate_rankings entry has a
\* rankings_count above the number of stage2.rankings entries: an evaluator
\* gives a model at most one rank.
C27_CountWithinEvaluators ==
  (pc \in {"stage3", "done"} /\ result.stage2 # <<>>) =>
    \A k \in 1..Len(result.stage2[1].aggregate_rankings) :
      result.stage2[1].aggregate_rankings[k].rankings_count
        <= Len(result.stage2[1].rankings)

\* C28: when every request that was sent settles, a started run returns a
\* result whose query is the query run() was called with, whichever requests
\* succeed or fail; it never ends otherwise.
C28_RunReturns == (pc = "stage1") ~> (Returned /\ result.query = query)

\* C28 witness: a run returned with its query although a Stage 1 request, a
\* ranking request and the chairman's request failed
C28_Witness ==
  /\ Returned
  /\ result.query = query
  /\ \E i \in DOMAIN results1 : results1[i].status = "rejected"
  /\ \E i \in DOMAIN results2 : results2[i].status = "rejected"
  /\ results3 # <<>>
  /\ results3[1].status = "rejected"
  /\ result.error # <<>>

====
